---- MODULE Spec2Model ----
(***************************************************************************)
(* Hypnotizing Double Pendulum: the simulation core (pendulum.cpp /        *)
(* pendulum.hpp) and the frame handler GameUpdate (main.cpp).              *)
(*                                                                         *)
(* Numbers.  Every C++ double is a fixed-point integer counting millionths *)
(* (Scale): 1.0 is 1000000, PI is 3141593.  Mul, Div and Sqrt round towards *)
(* zero at that resolution; sin and cos are a 64-interval quarter-wave     *)
(* table with linear interpolation.  NaN is a reserved value that every    *)
(* comparison rejects, as IEEE comparisons do.  The per-chain spread of    *)
(* the seeding (0.0001 rad) is 100 units, so distinct chains stay distinct. *)
(***************************************************************************)
EXTENDS Integers, Sequences, FiniteSets, TLC

\* ------------------------------------------------------------------ bounds

\* Largest clock reading (in whole seconds) a behaviour reaches.
MaxTime == 3
\* Largest number of ticks a Population receives between two seedings.
MaxTicks == 3
\* Largest number of writes to the settings file after startup.
MaxEdits == 1
\* Largest chain count, segment count and trajectory capacity the file sets.
MaxChains == 2
MaxJoined == 3
MaxTraj == 2
\* Largest reset sample count the file sets.
MaxSamples == 3
\* Largest value the reset counter reaches.
MaxResets == 2
\* Largest generation whose seeding is compared with the next one.
MaxGeneration == 12

\* ------------------------------------------------------- double arithmetic

Scale == 1000 * 1000

Kilo == 10 * 10 * 10

\* The value of a C++ expression that is not a number (0.0 / 0).
NaN == -2147483647

\* The element of a one-element set.  TLC hands an argument to an operator
\* unevaluated; Only({F(x) : x \in {e}}) evaluates e once, whatever F does
\* with it.
Only(S) == CHOOSE x \in S : TRUE

Abs(a) == IF a < 0 THEN -a ELSE a

Sgn(a) == IF a < 0 THEN -1 ELSE 1

Max2(a, b) == IF a > b THEN a ELSE b

\* a * b on doubles.
MulExact(a, b) ==
  LET ah == Abs(a) \div Kilo
      al == Abs(a) % Kilo
      bh == Abs(b) \div Kilo
      bl == Abs(b) % Kilo
  IN  Sgn(a) * Sgn(b)
        * (ah * bh + (ah * bl + al * bh) \div Kilo + (al * bl) \div Scale)

Mul(a, b) == Only({MulExact(x, y) : x \in {a}, y \in {b}})

\* a / b on doubles, b nonzero: long division, two decimals at a time.
DivExact(a, b) ==
  LET n  == Abs(a)
      d  == Abs(b)
      q0 == n \div d
      r0 == n % d
      q1 == (r0 * 100) \div d
      r1 == (r0 * 100) % d
      q2 == (r1 * 100) \div d
      r2 == (r1 * 100) % d
      q3 == (r2 * 100) \div d
  IN  Sgn(a) * Sgn(b) * (q0 * Scale + q1 * 10000 + q2 * 100 + q3)

Div(a, b) == Only({DivExact(x, y) : x \in {a}, y \in {b}})

\* The double of an integer (a size_t or int converted to double).
ToDouble(n) == n * Scale

RECURSIVE ISqrtIn(_, _, _)
ISqrtIn(n, lo, hi) ==
  IF lo >= hi THEN lo
  ELSE Only({IF mid * mid <= n THEN ISqrtIn(n, mid, hi) ELSE ISqrtIn(n, lo, mid - 1) :
               mid \in {(lo + hi + 1) \div 2}})

\* The integer square root of n < 2^31.
ISqrt(n) == Only({ISqrtIn(m, 0, 46340) : m \in {n}})

\* std::sqrt(x * x + y * y).
HypotExact(x, y) ==
  IF Max2(Abs(x), Abs(y)) <= 30000
  THEN ISqrt(x * x + y * y)
  ELSE Kilo * ISqrt((x \div Kilo) * (x \div Kilo) + (y \div Kilo) * (y \div Kilo))

Hypot(x, y) == Only({HypotExact(u, v) : u \in {x}, v \in {y}})

Pi == 3141593

HalfPi == Pi \div 2

TwoPi == 2 * Pi

\* The quarter wave in 64 intervals.
SinStep == HalfPi \div 64 + 1

\* sin(k * SinStep) for k = 0 .. 64, in millionths.
SinTable ==
  << 0, 24542, 49068, 73565, 98018, 122412, 146732, 170964, 195093, 219104,
     242983, 266716, 290288, 313686, 336894, 359899, 382688, 405246, 427560,
     449617, 471402, 492904, 514109, 535004, 555576, 575814, 595706, 615238,
     634400, 653180, 671566, 689547, 707114, 724254, 740958, 757216, 773017,
     788353, 803214, 817592, 831476, 844860, 857735, 870094, 881928, 893231,
     903995, 914216, 923885, 932998, 941549, 949533, 956945, 963780, 970035,
     975706, 980789, 985281, 989179, 992482, 995187, 997292, 998796, 999699,
     1000000 >>

\* sin on [0, pi/2].
SinQuarter(x) ==
  LET k  == x \div SinStep
      s0 == SinTable[k + 1]
      s1 == SinTable[k + 2]
  IN  s0 + ((x - k * SinStep) * (s1 - s0)) \div SinStep

\* sin on [0, pi).
SinHalf(x) == IF x > HalfPi THEN SinQuarter(Pi - x) ELSE SinQuarter(x)

\* sin on [0, 2 pi).
SinTurn(x) == IF x >= Pi THEN -SinHalf(x - Pi) ELSE SinHalf(x)

Sin(a) == Only({SinTurn(x) : x \in {a % TwoPi}})

Cos(a) == Sin(a + HalfPi)

\* ------------------------------------------------------------ pendulum.hpp

\* Vector2Double(x, y).
Vector2Double(x, y) == [x |-> x, y |-> y]

\* Vector2Double(), value-initialised.
ZeroVector == Vector2Double(0, 0)

\* A segment built with length and mass exchanged.
PendulumSwapped(length, mass, initialAngle) ==
  [ position            |-> ZeroVector,
    length              |-> mass,
    mass                |-> length,
    angle               |-> initialAngle,
    angularVelocity     |-> 0,
    angularAcceleration |-> 0 ]

\* Pendulum(length, mass, initialAngle).
Pendulum(length, mass, initialAngle) ==
  [ position            |-> ZeroVector,
    length              |-> length,
    mass                |-> mass,
    angle               |-> initialAngle,
    angularVelocity     |-> 0,
    angularAcceleration |-> 0 ]

\* The segment's arm, length * (sin(angle), cos(angle)).
Arm(p) == Vector2Double(Mul(p.length, Sin(p.angle)), Mul(p.length, Cos(p.angle)))

\* ------------------------------------------------- JoinedPendulum (a Chain)

\* A constructor that also places the first segment, from the anchor.
RECURSIVE ConnectEvery(_, _)
ConnectEvery(ps, i) ==
  IF i > Len(ps) THEN ps
  ELSE Only({ConnectEvery(next, i + 1) :
               next \in {[ps EXCEPT ![i].position =
                            Vector2Double(
                              (IF i = 1 THEN 0 ELSE ps[i - 1].position.x) + Arm(ps[i]).x,
                              (IF i = 1 THEN 0 ELSE ps[i - 1].position.y) + Arm(ps[i]).y)]}})

ConnectAll(ps, i) == ConnectEvery(ps, 1)

\* The constructor's second loop: segment i hangs from segment i - 1.
RECURSIVE Connect(_, _)
Connect(ps, i) ==
  IF i > Len(ps) THEN ps
  ELSE Only({Connect(next, i + 1) :
               next \in {[ps EXCEPT ![i].position =
                            Vector2Double(ps[i - 1].position.x + Arm(ps[i]).x,
                                          ps[i - 1].position.y + Arm(ps[i]).y)]}})

\* A constructor that builds as many segments as every array can fill
\* instead of throwing.
JoinedPendulumTruncating(size, lengths, masses, initialAngles, trajectoriesSize) ==
  LET fit == CHOOSE n \in 0..size :
               /\ n <= Len(lengths) /\ n <= Len(masses) /\ n <= Len(initialAngles)
               /\ \/ n = size
                  \/ n = Len(lengths) \/ n = Len(masses) \/ n = Len(initialAngles)
  IN  [ pendulums       |-> Only({Connect(ps, 2) :
                                    ps \in {[i \in 1..fit |->
                                              Pendulum(lengths[i], masses[i],
                                                       initialAngles[i])]}}),
        trajectories    |-> [k \in 1..trajectoriesSize |-> ZeroVector],
        trajectoryIndex |-> 0 ]

\* JoinedPendulum::JoinedPendulum.  A size mismatch throws before anything
\* is built.
JoinedPendulum(size, lengths, masses, initialAngles, trajectoriesSize) ==
  IF Len(lengths) # size THEN [thrown |-> "Invalid size provided for lengths"]
  ELSE IF Len(masses) # size THEN [thrown |-> "Invalid size provided for masses"]
  ELSE IF Len(initialAngles) # size
    THEN [thrown |-> "Invalid size provided for initialAngles"]
  ELSE
    [ pendulums       |-> Only({Connect(ps, 2) :
                                  ps \in {[i \in 1..size |->
                                            Pendulum(lengths[i], masses[i],
                                                     initialAngles[i])]}}),
      trajectories    |-> [k \in 1..trajectoriesSize |-> ZeroVector],
      trajectoryIndex |-> 0 ]

\* The single-pendulum branch of Update: the velocity is assigned, not
\* accumulated, and the function returns before the trajectory is captured.
Turned(p, acc, vel, ang) ==
  [p EXCEPT !.angularAcceleration = acc, !.angularVelocity = vel, !.angle = ang]

Placed(q, anchor) ==
  [q EXCEPT !.position = Vector2Double(anchor.x + Arm(q).x, anchor.y + Arm(q).y)]

\* The single-pendulum branch with the velocity accumulated.
SingleTurnedAccumulating(p, acc, dt) ==
  Only({Turned(p, acc, vel, p.angle + Mul(vel, dt)) :
          vel \in {p.angularVelocity + Mul(acc, dt)}})

SingleTurned(p, acc, dt) ==
  Only({Turned(p, acc, vel, p.angle + Mul(vel, dt)) : vel \in {Mul(acc, dt)}})

UpdateSingle(p, gravity, dt) ==
  Only({Placed(q, ZeroVector) :
          q \in {SingleTurned(p, acc, dt) :
                   acc \in {-Mul(Div(gravity, p.length), Sin(p.angle))}}})

\* The two accelerations of the pair (p1, p2).
PairDenominator(p1, p2) ==
  2 * p1.mass + p2.mass - Mul(p2.mass, Cos(2 * p1.angle - 2 * p2.angle))

FirstAcceleration(p1, p2, g) ==
  LET a1 == p1.angle
      a2 == p2.angle
      n1 == -Mul(Mul(g, 2 * p1.mass + p2.mass), Sin(a1))
      n2 == -Mul(Mul(p2.mass, g), Sin(a1 - 2 * a2))
      n3 == -Mul(2 * Sin(a1 - a2), p2.mass)
      n4 == Mul(Mul(p2.angularVelocity, p2.angularVelocity), p2.length)
              + Mul(Mul(Mul(p1.angularVelocity, p1.angularVelocity), p1.length),
                    Cos(a1 - a2))
      d  == Mul(p1.length, PairDenominator(p1, p2))
  IN  Div(n1 + n2 + Mul(n3, n4), d)

SecondAcceleration(p1, p2, g) ==
  LET a1 == p1.angle
      a2 == p2.angle
      n1 == 2 * Sin(a1 - a2)
      n2 == Mul(Mul(Mul(p1.angularVelocity, p1.angularVelocity), p1.length),
                p1.mass + p2.mass)
      n3 == Mul(Mul(g, p1.mass + p2.mass), Cos(a1))
      n4 == Mul(Mul(Mul(Mul(p2.angularVelocity, p2.angularVelocity), p2.length),
                    p2.mass),
                Cos(a1 - a2))
      d  == Mul(p2.length, PairDenominator(p1, p2))
  IN  Div(Mul(n1, n2 + n3 + n4), d)

\* The first loop run from the last pair to the first: every segment but the
\* first keeps the second-body result.
RECURSIVE AccelerateDown(_, _, _)
AccelerateDown(ps, i, g) ==
  IF i < 1 THEN ps
  ELSE Only({AccelerateDown(next, i - 1, g) :
               next \in {[ps EXCEPT
                            ![i].angularAcceleration =
                               FirstAcceleration(ps[i], ps[i + 1], g),
                            ![i + 1].angularAcceleration =
                               SecondAcceleration(ps[i], ps[i + 1], g)]}})

AccelerateBackwards(ps, i, g) == AccelerateDown(ps, Len(ps) - 1, g)

\* The first loop of Update, pairs i, i + 1 in increasing i (1-based here).
RECURSIVE Accelerate(_, _, _)
Accelerate(ps, i, g) ==
  IF i >= Len(ps) THEN ps
  ELSE Only({Accelerate(next, i + 1, g) :
               next \in {[ps EXCEPT
                            ![i].angularAcceleration =
                               FirstAcceleration(ps[i], ps[i + 1], g),
                            ![i + 1].angularAcceleration =
                               SecondAcceleration(ps[i], ps[i + 1], g)]}})

\* One segment of the second loop: velocity, angle, then position from the
\* segment before it (already moved) or from the anchor.
Integrate(p, anchor, dt) ==
  Only({Placed(q, anchor) :
          q \in {Turned(p, p.angularAcceleration, vel, p.angle + Mul(vel, dt)) :
                   vel \in {p.angularVelocity + Mul(p.angularAcceleration, dt)}}})

\* The second loop run from the last segment to the first: each segment hangs
\* from the position its predecessor had before the tick.
RECURSIVE MoveDown(_, _, _)
MoveDown(ps, i, dt) ==
  IF i < 1 THEN ps
  ELSE Only({MoveDown(next, i - 1, dt) :
               next \in {[ps EXCEPT ![i] =
                            Integrate(ps[i],
                                      IF i = 1 THEN ZeroVector ELSE ps[i - 1].position,
                                      dt)]}})

MoveStale(ps, i, dt) == MoveDown(ps, Len(ps), dt)

RECURSIVE Move(_, _, _)
Move(ps, i, dt) ==
  IF i > Len(ps) THEN ps
  ELSE Only({Move(next, i + 1, dt) :
               next \in {[ps EXCEPT ![i] =
                            Integrate(ps[i],
                                      IF i = 1 THEN ZeroVector ELSE ps[i - 1].position,
                                      dt)]}})

\* Capture with the cursor advanced before the write.
CaptureAhead(c, ps) ==
  [ pendulums       |-> ps,
    trajectories    |-> [c.trajectories EXCEPT
                           ![((c.trajectoryIndex + 1) % Len(c.trajectories)) + 1] =
                              ps[Len(ps)].position],
    trajectoryIndex |-> (c.trajectoryIndex + 1) % Len(c.trajectories) ]

\* The trajectory capture that ends Update.
Capture(c, ps) ==
  [ pendulums       |-> ps,
    trajectories    |-> [c.trajectories EXCEPT ![c.trajectoryIndex + 1] =
                           ps[Len(ps)].position],
    trajectoryIndex |-> (c.trajectoryIndex + 1) % Len(c.trajectories) ]

\* One loop instead of two: segment i is accelerated and moved before the
\* acceleration of segment i + 1 is computed.
RECURSIVE Cascade(_, _, _, _)
Cascade(ps, i, g, dt) ==
  IF i > Len(ps) THEN ps
  ELSE Only({Cascade(next, i + 1, g, dt) :
               next \in {[ps EXCEPT ![i] =
                            Integrate([ps[i] EXCEPT !.angularAcceleration =
                                         IF i < Len(ps)
                                         THEN FirstAcceleration(ps[i], ps[i + 1], g)
                                         ELSE SecondAcceleration(ps[i - 1], ps[i], g)],
                                      IF i = 1 THEN ZeroVector ELSE ps[i - 1].position,
                                      dt)]}})

UpdateCascading(c, gravity, dt) ==
  IF Len(c.pendulums) = 0 THEN c
  ELSE IF Len(c.pendulums) = 1
    THEN [c EXCEPT !.pendulums[1] = UpdateSingle(c.pendulums[1], gravity, dt)]
  ELSE Only({Capture(c, moved) : moved \in {Cascade(c.pendulums, 1, gravity, dt)}})

\* Update indexes an empty trajectory buffer and takes a remainder modulo 0.
UpdateUndefined(c) == Len(c.pendulums) >= 2 /\ Len(c.trajectories) = 0

\* JoinedPendulum::Update, where it is defined.
Update(c, gravity, dt) ==
  IF Len(c.pendulums) = 0 THEN c
  ELSE IF Len(c.pendulums) = 1
    THEN [c EXCEPT !.pendulums[1] = UpdateSingle(c.pendulums[1], gravity, dt)]
  ELSE Only({Capture(c, moved) :
               moved \in {Move(ps, 1, dt) : ps \in {Accelerate(c.pendulums, 1, gravity)}}})

\* ------------------------------------------------------ SimulationSettings

\* SimulationSettings::SimulationSettings, the built-in defaults.
DefaultSettings ==
  [ gravity              |-> 981000,
    fixedDeltaTime       |-> 166667,
    trajectoryAlphaPower |-> 2500000,
    pendulumsJoined      |-> 2,
    joinedPendulumsCount |-> 1000,
    trajectoryPoints     |-> 50,
    pendulumLength       |-> 150 * Scale,
    pendulumMass         |-> 10 * Scale,
    resetThreshold       |-> 10 * Scale,
    resetSamples         |-> 100,
    resetFadeTime        |-> 2500000 ]

\* The keys LoadSettings knows, in the order SaveSettings writes them.
Keys ==
  << "gravity", "fixedDeltaTime", "trajectoryAlphaPower", "pendulumsJoined",
     "joinedPendulumsCount", "trajectoryPoints", "pendulumLength", "pendulumMass",
     "resetThreshold", "resetSamples", "resetFadeTime" >>

\* The structural keys with the mass left out.
StructuralKeysButMass ==
  { "pendulumsJoined", "joinedPendulumsCount", "trajectoryPoints", "pendulumLength" }

\* The keys whose change makes LoadSettings ask for a reset.
StructuralKeys ==
  { "pendulumsJoined", "joinedPendulumsCount", "trajectoryPoints",
    "pendulumLength", "pendulumMass" }

\* One "key value" line of LoadSettings: the field is assigned when the parsed
\* value differs, and only a structural key raises needsReset.
LoadLine(acc, line) ==
  IF acc.settings[line[1]] # line[2]
  THEN [ settings   |-> [acc.settings EXCEPT ![line[1]] = line[2]],
         needsReset |-> acc.needsReset \/ line[1] \in StructuralKeys ]
  ELSE acc

RECURSIVE LoadLines(_, _, _)
LoadLines(acc, lines, i) ==
  IF i > Len(lines) THEN acc
  ELSE Only({LoadLines(next, lines, i + 1) : next \in {LoadLine(acc, lines[i])}})

\* SimulationSettings::LoadSettings over the file's valid lines.
LoadSettings(set, lines) == LoadLines([settings |-> set, needsReset |-> FALSE], lines, 1)

\* SimulationSettings::SaveSettings.  resetFadeTime, a double, is printed with
\* %zu, so the number that lands in the file is whatever the build produces.
SaveSettings(set, fade) ==
  [k \in 1..Len(Keys) |->
     << Keys[k], IF Keys[k] = "resetFadeTime" THEN fade ELSE set[Keys[k]] >>]

\* ------------------------------------------------------ the values a file sets

\* What the settings file holds at startup.
StartSettings ==
  [ gravity              |-> 981000,
    fixedDeltaTime       |-> 166667,
    trajectoryAlphaPower |-> 2500000,
    pendulumsJoined      |-> 2,
    joinedPendulumsCount |-> 2,
    trajectoryPoints     |-> 2,
    pendulumLength       |-> Scale,
    pendulumMass         |-> Scale,
    resetThreshold       |-> 40,
    resetSamples         |-> 1,
    resetFadeTime        |-> Scale ]

\* The values an edit of the file may give a key.  pendulumsJoined stays
\* at 1 or more, lengths and masses stay positive.
Values(key) ==
  CASE key = "gravity"              -> {981000, 2 * Scale}
    [] key = "fixedDeltaTime"       -> {166667, 500000}
    [] key = "trajectoryAlphaPower" -> {2500000, Scale}
    [] key = "pendulumsJoined"      -> 1..MaxJoined
    [] key = "joinedPendulumsCount" -> 0..MaxChains
    [] key = "trajectoryPoints"     -> 0..MaxTraj
    [] key = "pendulumLength"       -> {Scale, 2 * Scale}
    [] key = "pendulumMass"         -> {Scale, 2 * Scale}
    [] key = "resetThreshold"       -> {-Scale, 0, 40, 10 * Scale}
    [] key = "resetSamples"         -> 0..MaxSamples
    [] key = "resetFadeTime"        -> {0, Scale, 2 * Scale}

\* ---------------------------------------------------------- the Population

\* The generation offset in steps of a quarter turn: the same for every
\* generation.
InitialAngleQuarterTurns(i, size, resets) ==
  Pi + 125000 + Mul(Div(ToDouble(i), ToDouble(size)), 100)
     + ((resets * (Pi \div 4) + Pi \div 8) % (Pi \div 4)) - Pi \div 8

\* The first-segment angle InitializePendulums gives chain i of size chains.
InitialAngle(i, size, resets) ==
  Pi + 125000 + Mul(Div(ToDouble(i), ToDouble(size)), 100)
     + ((resets * 500000 + Pi \div 8) % (Pi \div 4)) - Pi \div 8

\* InitializePendulums(resets).
InitializePendulums(set, resets) ==
  [i \in 1..set.joinedPendulumsCount |->
     JoinedPendulum(set.pendulumsJoined,
                    [k \in 1..set.pendulumsJoined |-> set.pendulumLength],
                    [k \in 1..set.pendulumsJoined |-> set.pendulumMass],
                    [k \in 1..set.pendulumsJoined |->
                       IF k = 1
                       THEN InitialAngle(i - 1, set.joinedPendulumsCount, resets)
                       ELSE Pi],
                    set.trajectoryPoints)]

\* UpdatePendulums.
UpdatePendulums(pop, set) ==
  [i \in 1..Len(pop) |-> Update(pop[i], set.gravity, set.fixedDeltaTime)]

\* The chain index GetDivergence computes for sample s.
SampleIndex(s, size, samples) == (s * size) \div (samples + 1)

\* GetDivergence reads chain index + 1 past the end of the Population.
OutOfRange(pop, set) ==
  /\ Len(pop) > 0
  /\ \E s \in 0..(set.resetSamples - 1) :
       SampleIndex(s, Len(pop), set.resetSamples) + 1 >= Len(pop)

\* pendulums[i].pendulums.back().position; a read past the end yields junk.
Tip(pop, i, junk) ==
  IF i < Len(pop) THEN pop[i + 1].pendulums[Len(pop[i + 1].pendulums)].position
  ELSE junk

RECURSIVE SumDistances(_, _, _, _)
SumDistances(pop, set, s, junk) ==
  IF s >= set.resetSamples THEN 0
  ELSE LET i  == SampleIndex(s, Len(pop), set.resetSamples)
           p1 == Tip(pop, i, junk)
           p2 == Tip(pop, i + 1, junk)
       IN  Hypot(p1.x - p2.x, p1.y - p2.y) + SumDistances(pop, set, s + 1, junk)

\* GetDivergence.  With no samples the result is 0.0 / 0.
GetDivergence(pop, set, junk) ==
  IF Len(pop) = 0 THEN 0
  ELSE IF set.resetSamples = 0 THEN NaN
  ELSE Div(SumDistances(pop, set, 0, junk), ToDouble(set.resetSamples))

\* a > b on doubles.
Greater(a, b) == a # NaN /\ b # NaN /\ a > b

\* ------------------------------------------------------------------ main.cpp

VARIABLES
  settings,         \* SimulationSettings settings
  pendulums,        \* std::vector<JoinedPendulum> pendulums, the Population
  paused,           \* static bool paused
  divergence,       \* static double divergence
  resets,           \* static int resets
  initiatedReset,   \* static double initiatedReset, 0.0 when no reset is pending
  settingsModTime,  \* static int settingsModTime
  file,             \* settings.txt: its modification time and its valid lines
  now,              \* the wall clock, what GetTime() returns
  crashed,          \* the process ended in undefined behaviour
  ticks,            \* history: ticks the Population received since it was seeded
  tips,             \* history: per chain, the tip position after each of those ticks
  frame             \* history: what the last frame read and decided

vars ==
  << settings, pendulums, paused, divergence, resets, initiatedReset,
     settingsModTime, file, now, crashed, ticks, tips, frame >>

\* What one frame reads from the keyboard and, where the code reads outside
\* an object, from memory.
NoInput ==
  [ spaceKey    |-> FALSE,       \* KEY_SPACE pressed: toggle pause
    resetKey    |-> FALSE,       \* KEY_R pressed: manual reset
    continueKey |-> FALSE,       \* KEY_C down: suppress reset
    saveKey     |-> FALSE,       \* CTRL+S pressed
    junk        |-> ZeroVector,  \* what a read past the Population returns
    savedFade   |-> 0 ]          \* what %zu printed for resetFadeTime

\* The frame that led to this state, its inputs and the branches it took;
\* ran is FALSE when the last step was not a frame.
NoFrame ==
  [ ran |-> FALSE, in |-> NoInput, reloaded |-> FALSE, needsReset |-> FALSE,
    wasArmed |-> FALSE, resolved |-> FALSE, ticked |-> FALSE ]

\* GameInit: the file is loaded over the defaults and the Population seeded.
Init ==
  /\ file = [modTime |-> 0, lines |-> SaveSettings(StartSettings, StartSettings.resetFadeTime)]
  /\ settings = LoadSettings(DefaultSettings, file.lines).settings
  /\ settingsModTime = file.modTime
  /\ pendulums = InitializePendulums(settings, 0)
  /\ paused = TRUE
  /\ divergence = 0
  /\ resets = 0
  /\ initiatedReset = 0
  /\ now = Scale
  /\ crashed = FALSE
  /\ ticks = 0
  /\ tips = [i \in 1..Len(pendulums) |-> << >>]
  /\ frame = NoFrame

\* --- the steps of GameUpdate, in the order of the code

\* paused after the KEY_SPACE test.
PausedAfterKeys(in) == IF in.spaceKey THEN ~paused ELSE paused

\* The reload block: the file's time differs from the one remembered.
Reloaded == settingsModTime # file.modTime

\* What LoadSettings leaves and returns, when it is called.
Loaded ==
  IF Reloaded THEN LoadSettings(settings, file.lines)
  ELSE [settings |-> settings, needsReset |-> FALSE]

\* resets and pendulums after the reload block.
ResetsAfterReload(ld) == IF ld.needsReset THEN 0 ELSE resets

PendulumsAfterReload(ld) ==
  IF ld.needsReset THEN InitializePendulums(ld.settings, 0) ELSE pendulums

\* The save block.
FileAfterSave(in, ld) ==
  IF in.saveKey
  THEN [modTime |-> file.modTime + 1, lines |-> SaveSettings(ld.settings, in.savedFade)]
  ELSE file

\* Due only once the clock is past initiatedReset.
ResolvesLate == initiatedReset # 0 /\ now > initiatedReset

\* Due only while the simulation is not paused.
ResolvesUnlessPaused == initiatedReset # 0 /\ now >= initiatedReset /\ ~paused

\* The pending reset is due: initiatedReset != 0.0 and GetTime() >= initiatedReset.
Resolves == initiatedReset # 0 /\ now >= initiatedReset

\* Arming with the reading compared by >= instead of >.
ArmsAtThreshold(in, ld, reading) ==
  /\ initiatedReset = 0
  /\ ~in.continueKey
  /\ \/ in.resetKey
     \/ reading # NaN /\ reading >= ld.settings.resetThreshold

\* Arming tested outside the else branch, pending or not.
ArmsWhilePending(in, ld, reading) ==
  /\ ~in.continueKey
  /\ (in.resetKey \/ Greater(reading, ld.settings.resetThreshold))

\* The else branch arms: !continueKey && (resetKey || diverged).
Arms(in, ld, reading) ==
  /\ initiatedReset = 0
  /\ ~in.continueKey
  /\ (in.resetKey \/ Greater(reading, ld.settings.resetThreshold))

\* resets, pendulums and initiatedReset after the reset block.
ResetsAfterController(ld) ==
  IF Resolves THEN ResetsAfterReload(ld) + 1 ELSE ResetsAfterReload(ld)

\* A reset that keeps a Population of the right size instead of seeding.
PendulumsAfterControllerReusing(ld, pop1) ==
  IF Resolves /\ Len(pop1) # ld.settings.joinedPendulumsCount
  THEN InitializePendulums(ld.settings, ResetsAfterController(ld))
  ELSE pop1

PendulumsAfterController(ld, pop1) ==
  IF Resolves THEN InitializePendulums(ld.settings, ResetsAfterController(ld))
  ELSE pop1

\* A reset block that evaluates the triggers in the frame that resolves.
InitiatedAfterControllerRearming(in, ld, reading) ==
  IF (initiatedReset = 0 \/ Resolves)
       /\ ~in.continueKey
       /\ (in.resetKey \/ Greater(reading, ld.settings.resetThreshold))
  THEN now + ld.settings.resetFadeTime
  ELSE IF Resolves THEN 0
  ELSE initiatedReset

\* A reload block that also forgets the pending reset.
InitiatedAfterControllerClearing(in, ld, reading) ==
  IF Resolves \/ ld.needsReset THEN 0
  ELSE IF Arms(in, ld, reading) THEN now + ld.settings.resetFadeTime
  ELSE initiatedReset

InitiatedAfterController(in, ld, reading) ==
  IF Resolves THEN 0
  ELSE IF Arms(in, ld, reading) THEN now + ld.settings.resetFadeTime
  ELSE initiatedReset

\* The Population was rebuilt in this frame.
Seeded(ld) == ld.needsReset \/ Resolves

\* UpdatePendulums is called and runs into an empty trajectory buffer.
UpdatesUndefined(in, pop2) ==
  ~PausedAfterKeys(in) /\ \E i \in 1..Len(pop2) : UpdateUndefined(pop2[i])

\* The update block testing paused as it was before the KEY_SPACE test.
PendulumsAfterUpdateStalePause(in, ld, pop2) ==
  IF paused \/ UpdatesUndefined(in, pop2) THEN pop2
  ELSE UpdatePendulums(pop2, ld.settings)

\* pendulums after the last block: if (!paused) UpdatePendulums().
PendulumsAfterUpdate(in, ld, pop2) ==
  IF PausedAfterKeys(in) \/ UpdatesUndefined(in, pop2) THEN pop2
  ELSE UpdatePendulums(pop2, ld.settings)

\* The bounds of the model, as guards.
WithinBounds(in, ld, reading) ==
  /\ Arms(in, ld, reading) =>
       /\ now + ld.settings.resetFadeTime <= ToDouble(MaxTime)
       /\ ResetsAfterReload(ld) < MaxResets
  /\ in.saveKey => file.modTime < MaxEdits
  /\ ~PausedAfterKeys(in) => (IF Seeded(ld) THEN 0 ELSE ticks) < MaxTicks

TipOf(c) == c.pendulums[Len(c.pendulums)].position

\* The history kept beside the Population.
TipsAfter(in, ld, pop3) ==
  LET base == IF Seeded(ld) THEN [i \in 1..Len(pop3) |-> << >>] ELSE tips
  IN  IF PausedAfterKeys(in) THEN base
      ELSE [i \in 1..Len(pop3) |-> Append(base[i], TipOf(pop3[i]))]

\* One frame of GameUpdate that runs to its end.  ld is what the reload block
\* left, pop1 .. pop3 the Population after the reload, reset and update
\* blocks, reading the value of GetDivergence().
GameUpdate(in, ld, pop1, reading, pop2, pop3) ==
  /\ WithinBounds(in, ld, reading)
  /\ ~UpdatesUndefined(in, pop2)
  /\ paused' = PausedAfterKeys(in)
  /\ settings' = ld.settings
  /\ settingsModTime' = file.modTime
  /\ file' = FileAfterSave(in, ld)
  /\ divergence' = reading
  /\ resets' = ResetsAfterController(ld)
  /\ initiatedReset' = InitiatedAfterController(in, ld, reading)
  /\ pendulums' = pop3
  /\ ticks' = (IF Seeded(ld) THEN 0 ELSE ticks)
                + (IF PausedAfterKeys(in) THEN 0 ELSE 1)
  /\ tips' = TipsAfter(in, ld, pop3)
  /\ frame' = [ ran |-> TRUE, in |-> in, reloaded |-> Reloaded,
                needsReset |-> ld.needsReset, wasArmed |-> initiatedReset # 0, resolved |-> Resolves,
                ticked |-> ~PausedAfterKeys(in) ]

\* One frame that ends the process: a read past the Population in
\* GetDivergence, or Update on an empty trajectory buffer.
GameCrash(in, ld, pop1, pop2) ==
  /\ OutOfRange(pop1, ld.settings) \/ UpdatesUndefined(in, pop2)
  /\ crashed' = TRUE
  /\ UNCHANGED << settings, pendulums, paused, divergence, resets, initiatedReset,
                  settingsModTime, file, now, ticks, tips, frame >>

\* The user rewrites one line of settings.txt.
EditFile(k, v) ==
  /\ ~crashed
  /\ file.modTime < MaxEdits
  /\ file' = [modTime |-> file.modTime + 1,
              lines   |-> [file.lines EXCEPT ![k] = << Keys[k], v >>]]
  /\ frame' = NoFrame
  /\ UNCHANGED << settings, pendulums, paused, divergence, resets, initiatedReset,
                  settingsModTime, now, crashed, ticks, tips >>

\* The inputs of a frame; junk and savedFade vary only where they are read.
JunkReads(pop1, ld) ==
  IF OutOfRange(pop1, ld.settings) THEN {ZeroVector, Vector2Double(Scale, 0)}
  ELSE {ZeroVector}

SavedFades(saveKey) == IF saveKey THEN Values("resetFadeTime") ELSE {0}

\* A frame leaves the clock alone and, running to its end, the process alive.
Frame ==
  /\ ~crashed
  /\ UNCHANGED << now, crashed >>
  /\ \E ld \in {Loaded} : \E pop1 \in {PendulumsAfterReload(ld)} :
     \E junk \in JunkReads(pop1, ld) :
     \E reading \in {GetDivergence(pop1, ld.settings, junk)} :
     \E pop2 \in {PendulumsAfterController(ld, pop1)} :
     \E spaceKey \in BOOLEAN :
     \E pop3 \in {PendulumsAfterUpdate([NoInput EXCEPT !.spaceKey = spaceKey], ld, pop2)} :
     \E resetKey \in BOOLEAN : \E continueKey \in BOOLEAN : \E saveKey \in BOOLEAN :
     \E savedFade \in SavedFades(saveKey) :
       GameUpdate([ spaceKey |-> spaceKey, resetKey |-> resetKey,
                    continueKey |-> continueKey, saveKey |-> saveKey,
                    junk |-> junk, savedFade |-> savedFade ],
                  ld, pop1, reading, pop2, pop3)

Crash ==
  /\ ~crashed
  /\ \E ld \in {Loaded} : \E pop1 \in {PendulumsAfterReload(ld)} :
     \E spaceKey \in BOOLEAN :
       GameCrash([NoInput EXCEPT !.spaceKey = spaceKey], ld, pop1,
                 PendulumsAfterController(ld, pop1))

Edit == \E k \in 1..Len(Keys) : \E v \in Values(Keys[k]) : EditFile(k, v)

\* The wall clock moves on by a second between two frames.
Tick ==
  /\ ~crashed
  /\ now < ToDouble(MaxTime)
  /\ now' = now + Scale
  /\ frame' = NoFrame
  /\ UNCHANGED << settings, pendulums, paused, divergence, resets, initiatedReset,
                  settingsModTime, file, crashed, ticks, tips >>

Next == Frame \/ Crash \/ Edit \/ Tick

Spec == Init /\ [][Next]_vars

\* The program and the clock, with nobody editing the settings file.
LiveNext == Frame \/ Tick

\* The main loop calls GameUpdate again after every frame, and the wall
\* clock read by GetTime() keeps advancing.
LiveSpec == Init /\ [][LiveNext]_vars /\ WF_vars(Frame) /\ WF_vars(Tick)

\* --- GameDraw, called after every GameUpdate that returns

\* The value of x / 0.0 for x > 0.
Infinity == 2147483646

\* float alpha = initiatedReset == 0.0 ? 1.0f
\*                 : (initiatedReset - GetTime()) / settings.resetFadeTime.
FadeAlpha ==
  IF initiatedReset = 0 THEN Scale
  ELSE IF settings.resetFadeTime = 0
    THEN IF initiatedReset = now THEN NaN
         ELSE IF initiatedReset > now THEN Infinity ELSE -Infinity
  ELSE Div(initiatedReset - now, settings.resetFadeTime)

\* DrawPendulumTrajectories: if (alpha > 1.0) alpha = 1.0;
\* if (alpha < 0.0) alpha = 0.0.
ClampedAlpha(alpha) ==
  IF alpha = NaN THEN NaN
  ELSE IF alpha > Scale THEN Scale
  ELSE IF alpha < 0 THEN 0
  ELSE alpha

\* ------------------------------------------- a Chain constructed on its own

\* An array of n doubles, 1.0, 2.0, ...
ArrayOf(n) == [k \in 1..n |-> ToDouble(k)]

\* pendulums[0] = JoinedPendulum(size, lengths, masses, initialAngles,
\* trajectoriesSize) for arrays of any size.  The constructor's exception is
\* caught nowhere: the slot keeps what it held and the process ends.
ConstructChain(size, lengths, masses, initialAngles, trajectoriesSize) ==
  /\ ~crashed
  /\ \E c \in {JoinedPendulum(size, lengths, masses, initialAngles, trajectoriesSize)} :
       /\ crashed' = ("thrown" \in DOMAIN c)
       /\ pendulums' = IF "thrown" \in DOMAIN c THEN pendulums ELSE << c >>
       /\ frame' = [ ran    |-> FALSE,
                     call   |-> [ size |-> size, lengths |-> lengths, masses |-> masses,
                                  initialAngles |-> initialAngles,
                                  trajectoriesSize |-> trajectoriesSize ],
                     result |-> c ]
  /\ UNCHANGED << settings, paused, divergence, resets, initiatedReset,
                  settingsModTime, file, now, ticks, tips >>

Construct ==
  \E size \in 0..MaxJoined : \E nl \in 0..MaxJoined : \E nm \in 0..MaxJoined :
  \E na \in 0..MaxJoined : \E trajectoriesSize \in 0..MaxTraj :
    ConstructChain(size, ArrayOf(nl), ArrayOf(nm), ArrayOf(na), trajectoriesSize)

ChainNext == Construct

\* A caller that constructs one Chain after another from arrays of any size.
ChainSpec == Init /\ [][ChainNext]_vars

\* ------------------------------------------------------------------ claims

\* The step is a frame of GameUpdate that ran to its end.
FrameStep == frame'.ran /\ ~crashed'

\* The state was left by a frame that found no reset pending.
AfterRunningFrame == frame.ran /\ ~frame.wasArmed

\* The reading of that frame strictly exceeds the threshold it was compared to.
ReadingExceeds == divergence # NaN /\ divergence > settings.resetThreshold

\* C1: in Running, a manual-reset event arms a reset for now + resetFadeTime
\* whether or not the suppress-reset key is held.
C1_ManualResetArmsDespiteSuppress ==
  (AfterRunningFrame /\ frame.in.resetKey)
    => initiatedReset = now + settings.resetFadeTime

\* C2: in Running with no manual-reset event, a reading strictly above
\* resetThreshold arms a reset for now + resetFadeTime exactly when the
\* suppress-reset key is not held; any other reading leaves Running.
C2_DivergenceArmsUnlessSuppressed ==
  (AfterRunningFrame /\ ~frame.in.resetKey)
    => IF ReadingExceeds /\ ~frame.in.continueKey
       THEN initiatedReset # 0 /\ initiatedReset = now + settings.resetFadeTime
       ELSE initiatedReset = 0

C2_Witness ==
  /\ AfterRunningFrame /\ ~frame.in.resetKey /\ ~frame.in.continueKey
  /\ ReadingExceeds
  /\ initiatedReset = now + settings.resetFadeTime
  /\ initiatedReset > now

\* C3: while a reset is pending no frame re-arms it: initiatedReset keeps its
\* value until the frame that resolves it, whatever the keys and the reading.
C3_NoRearmWhilePending ==
  [][(FrameStep /\ initiatedReset # 0)
       => \/ initiatedReset' = initiatedReset
          \/ frame'.resolved /\ initiatedReset' = 0]_vars

C3_Witness ==
  /\ frame.ran /\ frame.wasArmed /\ ~frame.resolved
  /\ frame.in.resetKey /\ ~frame.in.continueKey
  /\ now > Scale
  /\ ReadingExceeds
  /\ initiatedReset # 0

JustResolved ==
  /\ frame.ran /\ frame.resolved
  /\ initiatedReset = 0
  /\ pendulums = IF frame.ticked
                 THEN UpdatePendulums(InitializePendulums(settings, resets), settings)
                 ELSE InitializePendulums(settings, resets)

\* C5: every pending reset resolves, with the Population re-seeded, once
\* frames keep running and the clock passes initiatedReset, paused or not.
C5_ArmedResetResolves == (initiatedReset # 0) ~> JustResolved

C5_Witness ==
  /\ frame.ran /\ frame.wasArmed /\ frame.resolved
  /\ paused /\ ~frame.in.spaceKey
  /\ initiatedReset = 0
  /\ resets > 0

\* The Population as the update block of the frame just taken found it.
BeforeUpdate ==
  IF frame'.needsReset \/ frame'.resolved
  THEN InitializePendulums(settings', resets')
  ELSE pendulums

\* C6: every tick of a Chain of one or more segments stores the tip it has
\* just recomputed at the cursor and advances the cursor modulo the capacity.
C6_EveryTickRecordsTip ==
  [][(FrameStep /\ frame'.ticked)
       => \A i \in 1..Len(pendulums') :
            LET before == BeforeUpdate[i]
                after  == pendulums'[i]
                cap    == Len(before.trajectories)
            IN  (Len(before.pendulums) >= 1 /\ cap >= 1)
                  => /\ after.trajectories =
                          [before.trajectories EXCEPT
                             ![before.trajectoryIndex + 1] = TipOf(after)]
                     /\ after.trajectoryIndex = (before.trajectoryIndex + 1) % cap]_vars

\* C7: for a Chain of two or more segments and capacity C >= 1, after k ticks
\* the buffer has C slots, slot (t - 1) mod C holds the tip of tick t for the
\* last min(k, C) ticks, and slots never written are still zero.
C7_TrajectoryIsRing ==
  \A i \in 1..Len(pendulums) :
    LET c   == pendulums[i]
        cap == Len(c.trajectories)
    IN  (Len(c.pendulums) >= 2 /\ cap >= 1)
          => /\ cap = settings.trajectoryPoints
             /\ Len(tips[i]) = ticks
             /\ \A t \in 1..ticks :
                  t > ticks - cap => c.trajectories[((t - 1) % cap) + 1] = tips[i][t]
             /\ \A k \in 1..cap : k > ticks => c.trajectories[k] = ZeroVector

C7_Witness ==
  \E i \in 1..Len(pendulums) :
    /\ Len(pendulums[i].pendulums) >= 2
    /\ Len(pendulums[i].trajectories) = 2
    /\ ticks = 3
    /\ pendulums[i].trajectories[1] = tips[i][3]
    /\ pendulums[i].trajectories[2] = tips[i][2]
    /\ tips[i][3] # tips[i][1]

\* C8: for a non-empty Population, every sample index
\* floor(s * chainCount / (resetSamples + 1)) has index + 1 < chainCount.
C8_SamplesStayInRange ==
  (frame.ran /\ Len(pendulums) > 0)
    => \A s \in 0..(settings.resetSamples - 1) :
         (s * Len(pendulums)) \div (settings.resetSamples + 1) + 1 < Len(pendulums)

\* C9: GetDivergence is 0 for an empty Population and otherwise, for every
\* sample count, a non-negative number, the mean distance between the tips of
\* each sampled chain and the chain after it.  (Read off a frame that neither
\* re-seeded nor ticked after the reading.)
C9_DivergenceIsMeanDistance ==
  (frame.ran /\ ~frame.ticked /\ ~frame.resolved)
    => IF Len(pendulums) = 0 THEN divergence = 0
       ELSE /\ divergence # NaN
            /\ divergence >= 0
            /\ ~OutOfRange(pendulums, settings)
            /\ divergence = Div(SumDistances(pendulums, settings, 0, ZeroVector),
                                ToDouble(settings.resetSamples))

\* C10: a reload that changes a structural parameter re-seeds the whole
\* Population in that frame with the counter at 0 (1 when the pending reset
\* resolves in the same frame); a reload that changes none leaves the
\* Population and the counter as they were.
C10_StructuralReloadReseeds ==
  [][(FrameStep /\ frame'.reloaded)
       => IF \/ settings'.pendulumsJoined # settings.pendulumsJoined
             \/ settings'.joinedPendulumsCount # settings.joinedPendulumsCount
             \/ settings'.trajectoryPoints # settings.trajectoryPoints
             \/ settings'.pendulumLength # settings.pendulumLength
             \/ settings'.pendulumMass # settings.pendulumMass
          THEN /\ frame'.needsReset
               /\ resets' = IF frame'.resolved THEN 1 ELSE 0
               /\ ticks' = IF frame'.ticked THEN 1 ELSE 0
               /\ pendulums' =
                    IF frame'.ticked
                    THEN UpdatePendulums(InitializePendulums(settings', resets'), settings')
                    ELSE InitializePendulums(settings', resets')
          ELSE /\ ~frame'.needsReset
               /\ (~frame'.resolved /\ ~frame'.ticked)
                    => pendulums' = pendulums /\ resets' = resets /\ ticks' = ticks]_vars

C10_Witness ==
  /\ frame.ran /\ frame.reloaded /\ frame.needsReset
  /\ ~frame.resolved /\ ~frame.ticked
  /\ settings.pendulumMass = 2 * Scale
  /\ resets = 0
  /\ pendulums = InitializePendulums(settings, 0)

\* The Population InitializePendulums builds for the structural parameters of
\* set and generation G, every other parameter at its default.
StructuralOnly(set) ==
  [DefaultSettings EXCEPT !.pendulumsJoined      = set.pendulumsJoined,
                          !.joinedPendulumsCount = set.joinedPendulumsCount,
                          !.trajectoryPoints     = set.trajectoryPoints,
                          !.pendulumLength       = set.pendulumLength,
                          !.pendulumMass         = set.pendulumMass]

\* C11: a Population that has received no tick since it was seeded has exactly
\* joinedPendulumsCount chains, each of exactly pendulumsJoined segments of the
\* configured length and mass, every segment after the first at angle pi, all
\* angular velocities and accelerations 0, a trajectory buffer of exactly
\* trajectoryPoints zero points and cursor 0, whatever Population it replaced.
C11_SeedingShape ==
  ticks = 0
    => /\ Len(pendulums) = settings.joinedPendulumsCount
       /\ \A i \in 1..Len(pendulums) :
            LET c == pendulums[i]
            IN  /\ DOMAIN c = {"pendulums", "trajectories", "trajectoryIndex"}
                /\ Len(c.pendulums) = settings.pendulumsJoined
                /\ \A k \in 1..Len(c.pendulums) :
                     /\ c.pendulums[k].length = settings.pendulumLength
                     /\ c.pendulums[k].mass = settings.pendulumMass
                     /\ k > 1 => c.pendulums[k].angle = Pi
                     /\ c.pendulums[k].angularVelocity = 0
                     /\ c.pendulums[k].angularAcceleration = 0
                /\ Len(c.trajectories) = settings.trajectoryPoints
                /\ \A k \in 1..Len(c.trajectories) : c.trajectories[k] = ZeroVector
                /\ c.trajectoryIndex = 0

\* A reset resolved over a Population that had moved and seeded two chains
\* of two or more segments.
C11_Witness ==
  /\ frame.ran /\ frame.resolved /\ ticks = 0
  /\ divergence # NaN /\ divergence > 0
  /\ Len(pendulums) = 2
  /\ Len(pendulums[1].pendulums) >= 2
  /\ pendulums[2].pendulums[2].angle = Pi
  /\ pendulums[2].pendulums[1].angle # Pi
  /\ Len(pendulums[1].trajectories) = 2

\* C12: the initial angles of a freshly seeded Population are a function of the
\* segment count, chain count, length, mass and generation alone: they equal
\* those of a Population seeded from scratch with the same five values,
\* whatever was replaced and however many ticks or resets came before.
C12_SeedingDeterministic ==
  ticks = 0
    => LET fresh == InitializePendulums(StructuralOnly(settings), resets)
       IN  /\ Len(pendulums) = Len(fresh)
           /\ \A i \in 1..Len(pendulums) :
                /\ Len(pendulums[i].pendulums) = Len(fresh[i].pendulums)
                /\ \A k \in 1..Len(pendulums[i].pendulums) :
                     pendulums[i].pendulums[k].angle = fresh[i].pendulums[k].angle

\* The second reset, over a Population that had been ticked, after the
\* non-structural parameters were changed.
C12_Witness ==
  /\ frame.ran /\ frame.resolved /\ ~frame.needsReset /\ ticks = 0
  /\ resets = 2
  /\ divergence # NaN /\ divergence > 0
  /\ Len(pendulums) = 2
  /\ settings # StructuralOnly(settings)

\* C13: for every generation G and every chain, seeding with G + 1 gives a
\* first-segment angle different from seeding with G; in particular the
\* Population a reset seeds differs in every chain from the one the previous
\* generation started from.
C13_ConsecutiveGenerationsDiffer ==
  ticks = 0
    => /\ \A G \in 0..MaxGeneration :
            \A i \in 0..(settings.joinedPendulumsCount - 1) :
              InitialAngle(i, settings.joinedPendulumsCount, G + 1)
                # InitialAngle(i, settings.joinedPendulumsCount, G)
       /\ (frame.ran /\ frame.resolved)
            => \A i \in 1..Len(pendulums) :
                 pendulums[i].pendulums[1].angle
                   # InitialAngle(i - 1, Len(pendulums), resets - 1)

C13_Witness ==
  /\ frame.ran /\ frame.resolved /\ ticks = 0
  /\ resets = 1
  /\ Len(pendulums) = 2
  /\ pendulums[1].pendulums[1].angle = InitialAngle(0, 2, 1)
  /\ pendulums[1].pendulums[1].angle = InitialAngle(0, 2, 0) + 500000 - Pi \div 4

\* C14: constructing a Chain whose lengths, masses or initial-angles array has
\* a length other than the segment count throws: the call yields no Chain, no
\* segment and no trajectory buffer, and the Population slot keeps what it
\* held.  With three arrays of the right length the Chain has exactly that
\* many segments, each with its own length, mass and angle.
C14_MismatchThrows ==
  [][("call" \in DOMAIN frame')
       => LET a == frame'.call
              c == frame'.result
          IN  IF \/ Len(a.lengths) # a.size
                 \/ Len(a.masses) # a.size
                 \/ Len(a.initialAngles) # a.size
              THEN /\ DOMAIN c = {"thrown"}
                   /\ crashed'
                   /\ pendulums' = pendulums
              ELSE /\ ~crashed'
                   /\ pendulums' = << c >>
                   /\ Len(c.pendulums) = a.size
                   /\ \A k \in 1..a.size :
                        /\ c.pendulums[k].length = a.lengths[k]
                        /\ c.pendulums[k].mass = a.masses[k]
                        /\ c.pendulums[k].angle = a.initialAngles[k]
                   /\ Len(c.trajectories) = a.trajectoriesSize]_vars

\* Two lengths, two angles and one mass for two segments.
C14_Witness ==
  /\ "call" \in DOMAIN frame
  /\ frame.call.size = 2
  /\ Len(frame.call.lengths) = 2
  /\ Len(frame.call.initialAngles) = 2
  /\ Len(frame.call.masses) = 1
  /\ frame.result = [thrown |-> "Invalid size provided for masses"]
  /\ crashed
  /\ Len(pendulums) = 2

\* C15: a frame that leaves the simulation not paused calls Update exactly once
\* on every Chain of the Population (as the reload and reset blocks left it),
\* and a frame that leaves it paused changes no Chain; without a re-seed the
\* Population of a paused frame is the one the frame found.
C15_OneTickPerUnpausedFrame ==
  [][FrameStep
       => IF ~paused'
          THEN /\ Len(pendulums') = Len(BeforeUpdate)
               /\ \A i \in 1..Len(pendulums') :
                    pendulums'[i] = Update(BeforeUpdate[i], settings'.gravity,
                                           settings'.fixedDeltaTime)
               /\ ticks' = (IF frame'.needsReset \/ frame'.resolved THEN 0 ELSE ticks) + 1
          ELSE /\ pendulums' = BeforeUpdate
               /\ (~frame'.needsReset /\ ~frame'.resolved)
                    => pendulums' = pendulums /\ ticks' = ticks]_vars

\* The frame that toggled the pause off over a Population ticked once before.
C15_Witness ==
  /\ frame.ran /\ frame.in.spaceKey /\ ~paused
  /\ ~frame.needsReset /\ ~frame.resolved
  /\ ticks = 2
  /\ Len(pendulums) = 2
  /\ tips[1][2] # tips[1][1]

\* C16: after every frame the fade progress handed to the renderer is 1.0 with
\* no reset pending and, with one pending, a number in [0, 1]; in the frame
\* that armed the reset, and as long as the clock has not moved since, the
\* renderer makes an opacity of 1.0 of it.
C16_FadeProgressLinear ==
  frame.ran
    => IF initiatedReset = 0 THEN FadeAlpha = Scale
       ELSE /\ FadeAlpha # NaN
            /\ 0 <= FadeAlpha /\ FadeAlpha <= Scale
            /\ (~frame.wasArmed \/ now = Scale) => ClampedAlpha(FadeAlpha) = Scale

\* C17: one tick of a Chain of one segment sets the acceleration to
\* -(gravity / length) * sin(angle before), the velocity to acceleration * dt
\* and the angle to angle before + velocity * dt; the Chain after the tick is
\* the same for every velocity it could have held before.
C17_SingleSegmentTick ==
  [][(FrameStep /\ ~paused')
       => \A i \in 1..Len(pendulums') :
            Len(BeforeUpdate[i].pendulums) = 1
              => LET p  == BeforeUpdate[i].pendulums[1]
                     q  == pendulums'[i].pendulums[1]
                     dt == settings'.fixedDeltaTime
                 IN  /\ q.angularAcceleration =
                          -Mul(Div(settings'.gravity, p.length), Sin(p.angle))
                     /\ q.angularVelocity = Mul(q.angularAcceleration, dt)
                     /\ q.angle = p.angle + Mul(q.angularVelocity, dt)
                     /\ \A v \in {0, Scale, p.angularVelocity - Scale} :
                          Update([BeforeUpdate[i] EXCEPT
                                    !.pendulums[1].angularVelocity = v],
                                 settings'.gravity, dt) = pendulums'[i]]_vars

\* The second tick of a Chain of one segment, which held a velocity.
C17_Witness ==
  /\ frame.ran /\ frame.ticked /\ ticks = 2
  /\ Len(pendulums) = 2
  /\ Len(pendulums[1].pendulums) = 1
  /\ pendulums[1].pendulums[1].angularVelocity # 0
  /\ pendulums[1].pendulums[1].angularVelocity =
       Mul(pendulums[1].pendulums[1].angularAcceleration, settings.fixedDeltaTime)

\* C18: one tick of a Chain of N >= 2 segments leaves in every segment the
\* acceleration of its pair computed from the angles and velocities all
\* segments had before the tick (the first-body result of pair (k, k + 1), for
\* the last segment the second-body result of pair (N - 1, N)), then
\* velocity = velocity before + acceleration * dt and
\* angle = angle before + (the new) velocity * dt.
C18_AccelerationsFromSnapshot ==
  [][(FrameStep /\ ~paused')
       => \A i \in 1..Len(pendulums') :
            LET b  == BeforeUpdate[i].pendulums
                a  == pendulums'[i].pendulums
                n  == Len(b)
                g  == settings'.gravity
                dt == settings'.fixedDeltaTime
            IN  n >= 2
                  => \A k \in 1..n :
                       /\ a[k].angularAcceleration =
                            IF k < n THEN FirstAcceleration(b[k], b[k + 1], g)
                            ELSE SecondAcceleration(b[n - 1], b[n], g)
                       /\ a[k].angularVelocity =
                            b[k].angularVelocity + Mul(a[k].angularAcceleration, dt)
                       /\ a[k].angle = b[k].angle + Mul(a[k].angularVelocity, dt)]_vars

\* The second tick of a Chain of two segments, both of them moving.
C18_Witness ==
  /\ frame.ran /\ frame.ticked /\ ticks = 2
  /\ Len(pendulums) = 2
  /\ Len(pendulums[1].pendulums) = 2
  /\ \A k \in 1..2 : /\ pendulums[1].pendulums[k].angularVelocity # 0
                     /\ pendulums[1].pendulums[k].angularAcceleration # 0
  /\ pendulums[1].pendulums[2].angle # Pi

\* C19: once a Chain has been ticked, in every state the first segment's
\* position is length * (sin(angle), cos(angle)) and every later segment's is
\* the position of the segment before it plus its own
\* length * (sin(angle), cos(angle)), with the angles the segments have now.
C19_PositionsFollowAngles ==
  ticks > 0
    => \A i \in 1..Len(pendulums) :
         LET ps == pendulums[i].pendulums
         IN  \A k \in 1..Len(ps) :
               LET anchor == IF k = 1 THEN ZeroVector ELSE ps[k - 1].position
               IN  /\ ps[k].position.x = anchor.x + Mul(ps[k].length, Sin(ps[k].angle))
                   /\ ps[k].position.y = anchor.y + Mul(ps[k].length, Cos(ps[k].angle))

\* A paused frame over a Chain of three segments ticked twice.
C19_Witness ==
  /\ frame.ran /\ ~frame.ticked /\ ticks = 2
  /\ Len(pendulums) = 2
  /\ Len(pendulums[2].pendulums) = 3
  /\ pendulums[2].pendulums[3].position # pendulums[2].pendulums[2].position
  /\ pendulums[2].pendulums[1].position # ZeroVector
  /\ pendulums[2].pendulums[1].angle # Pi

\* C20: a frame that finds a reset pending and reloads a structural change
\* seeds the Population with the counter at 0 and, the clock not having
\* reached initiatedReset, leaves initiatedReset as it was; a frame that finds
\* the reset due with the counter at 0 resolves it, seeds the Population again
\* and leaves the counter at 1.
C20_ReloadKeepsPendingReset ==
  [][(FrameStep /\ initiatedReset # 0)
       => LET seeded == InitializePendulums(settings', resets')
              after  == IF paused' THEN seeded ELSE UpdatePendulums(seeded, settings')
          IN  /\ (frame'.needsReset /\ now' < initiatedReset)
                   => /\ initiatedReset' = initiatedReset
                      /\ resets' = 0
                      /\ pendulums' = after
              /\ (now' >= initiatedReset /\ (frame'.needsReset \/ resets = 0))
                   => /\ initiatedReset' = 0
                      /\ resets' = 1
                      /\ pendulums' = after]_vars

\* The structural reload of a paused frame, the reset still pending.
C20_Witness ==
  /\ frame.ran /\ frame.reloaded /\ frame.needsReset
  /\ frame.wasArmed /\ ~frame.resolved
  /\ initiatedReset > now
  /\ resets = 0 /\ ticks = 0
  /\ pendulums = InitializePendulums(settings, 0)
  /\ settings.pendulumsJoined # StartSettings.pendulumsJoined

\* The Population GetDivergence read in the frame just taken was freshly
\* seeded: the reload block seeded it, or it had received no tick and the
\* frame neither ticked nor replaced it.
ReadFresh == frame.ran /\ (frame.needsReset \/ (ticks = 0 /\ ~frame.resolved))

\* C21: until its first tick a Population has the first segment of every chain
\* at (0, 0) and the tips of all chains at one point; a reading taken from it
\* with at least one sample, all in range, is exactly 0, and with a threshold
\* of 0 or more a frame that reads it in Running without a manual reset leaves
\* no reset pending.
C21_FreshPopulationNeverDiverges ==
  /\ ticks = 0
       => \A i \in 1..Len(pendulums) :
            /\ pendulums[i].pendulums[1].position = ZeroVector
            /\ TipOf(pendulums[i]) = TipOf(pendulums[1])
  /\ (ReadFresh /\ ~OutOfRange(pendulums, settings))
       => /\ settings.resetSamples >= 1 => divergence = 0
          /\ (~frame.wasArmed /\ ~frame.in.resetKey /\ settings.resetThreshold >= 0)
               => initiatedReset = 0

\* A paused frame over two fresh chains of different first angles, threshold
\* 0 and nothing held: no reset is armed.
C21_Witness ==
  /\ ReadFresh /\ ~frame.wasArmed /\ ticks = 0
  /\ ~frame.in.resetKey /\ ~frame.in.continueKey
  /\ settings.resetThreshold = 0
  /\ settings.resetSamples = 1
  /\ Len(pendulums) = 2
  /\ pendulums[1].pendulums[1].angle # pendulums[2].pendulums[1].angle
  /\ TipOf(pendulums[1]) = TipOf(pendulums[2])
  /\ divergence = 0
  /\ initiatedReset = 0

\* C22: in every state the cursor of every chain is inside its buffer (0 when
\* the capacity is 0), and no frame ends the process in Update, writing a
\* slot of an empty buffer and taking a remainder modulo 0: a frame that ends
\* the process does so in GetDivergence.
C22_CursorStaysInBuffer ==
  [][/\ \A i \in 1..Len(pendulums') :
          LET c == pendulums'[i]
          IN  IF Len(c.trajectories) = 0 THEN c.trajectoryIndex = 0
              ELSE 0 <= c.trajectoryIndex /\ c.trajectoryIndex < Len(c.trajectories)
     /\ (crashed' /\ ~crashed)
          => OutOfRange(PendulumsAfterReload(Loaded), Loaded.settings)]_vars

\* C23: a frame that finds no reset pending resolves none (the counter is the
\* one the reload block left), and a frame that finds one pending arms none:
\* it leaves initiatedReset as it was or, resolving, at 0, whatever the keys,
\* the reading and resetFadeTime.  So a reset is pending in at least one
\* state between the frame that arms it and the frame that resolves it.
C23_ArmAndResolveInDifferentFrames ==
  [][FrameStep
       => IF initiatedReset = 0
          THEN /\ ~frame'.resolved
               /\ resets' = (IF frame'.needsReset THEN 0 ELSE resets)
               /\ initiatedReset' # 0 => initiatedReset' = now' + settings'.resetFadeTime
          ELSE /\ frame'.resolved = (now' >= initiatedReset)
               /\ initiatedReset' = (IF frame'.resolved THEN 0 ELSE initiatedReset)]_vars

\* A reset armed with resetFadeTime 0 resolves in a later frame, which has
\* the manual-reset key pressed and a reading above the threshold and yet
\* arms nothing.
C23_Witness ==
  /\ frame.ran /\ frame.wasArmed /\ frame.resolved
  /\ settings.resetFadeTime = 0
  /\ frame.in.resetKey /\ ~frame.in.continueKey
  /\ ReadingExceeds
  /\ initiatedReset = 0
  /\ resets = 1

\* C24: one tick of a Chain of N >= 3 segments leaves in every segment k < N
\* the first-body acceleration of pair (k, k + 1) and in segment N the
\* second-body acceleration of pair (N - 1, N), each taken from the state before
\* the tick; the second-body result pair (k - 1, k) wrote into a middle segment
\* is gone.
C24_LaterPairOverwrites ==
  [][(FrameStep /\ ~paused')
       => \A i \in 1..Len(pendulums') :
            LET b == BeforeUpdate[i].pendulums
                a == pendulums'[i].pendulums
                n == Len(b)
            IN  n >= 3
                  => /\ \A k \in 1..(n - 1) :
                          a[k].angularAcceleration =
                            FirstAcceleration(b[k], b[k + 1], settings'.gravity)
                     /\ a[n].angularAcceleration =
                          SecondAcceleration(b[n - 1], b[n], settings'.gravity)]_vars

\* The first tick of a Chain of three segments: the middle segment holds the
\* first-body result of pair (2, 3), which is 0, and not the second-body
\* result of pair (1, 2), which is not.
C24_Witness ==
  /\ frame.ran /\ frame.ticked /\ ticks = 1
  /\ Len(pendulums) = 2
  /\ Len(pendulums[1].pendulums) = 3
  /\ LET b == InitializePendulums(settings, resets)[1].pendulums
     IN  /\ pendulums[1].pendulums[2].angularAcceleration
              = FirstAcceleration(b[2], b[3], settings.gravity)
         /\ pendulums[1].pendulums[2].angularAcceleration
              # SecondAcceleration(b[1], b[2], settings.gravity)
         /\ pendulums[1].pendulums[1].angularAcceleration
              = FirstAcceleration(b[1], b[2], settings.gravity)
         /\ pendulums[1].pendulums[1].angularAcceleration # 0

====
